---- MODULE Spec2Model ----
(***************************************************************************)
(* Model of the stock-dashboard backend.                                   *)
(*                                                                         *)
(* Spec       : the history store (data_provider.py) written by the        *)
(*              background updater of main.py and read by the /latest,     *)
(*              /session and /news request handlers, which FastAPI runs in *)
(*              worker threads because they are plain `def` functions.     *)
(* SpecSignal : the pure signal pipeline of advanced_indicators.py applied *)
(*              to inputs drawn from bounded sets.                         *)
(*                                                                         *)
(* Units in the pipeline: a price is an integer number of cents; a score,  *)
(* a pressure or a confidence is an integer number of hundredths; the      *)
(* weighted sum `combined` is kept exactly, in units of 1/10000.           *)
(*                                                                         *)
(* What the store holds comes from the outside: the prices and the volumes *)
(* from random.uniform, whose generator main.py never seeds and shares     *)
(* between the updater, the volume loops and generate_news, the timestamps *)
(* from time.time().  The code of the store copies these numbers and never *)
(* computes with them, so Spec does not choose them: a drawn number is     *)
(* kept as the NAME of the draw that produced it (UniformPrice,            *)
(* UniformVolume) and stands for whichever float the draw returned, two    *)
(* names possibly for the same float; a timestamp is kept as an int of     *)
(* unknown value.  A run of Spec is thereby every run of the code that     *)
(* takes the same steps, whatever the generator and the clock gave, and    *)
(* the generator's state needs no variable.                                *)
(***************************************************************************)
EXTENDS Integers, Sequences, FiniteSets, TLC

VARIABLES
    \* ---- history store (app.services.cache, used by data_provider.py) ----
    market_cache,     \* dict symbol -> snapshot
    price_history,    \* dict symbol -> list of prices
    \* ---- background updater (main.py:43-47) ----
    u_pc,             \* position of the updater
    u_i,              \* index of the symbol being updated in STOCK_SYMBOLS
    u_price,          \* local `price` of update_market_snapshot
    rounds,           \* completed passes over STOCK_SYMBOLS
    ticks,            \* history variable: how many prices were recorded, per symbol
    \* ---- request handler running in a worker thread (main.py:55-124) ----
    r_pc,             \* position of the handler
    r_endpoint,       \* "latest", "session" or "news"
    r_symbol,         \* the symbol asked for
    r_snapshot,       \* local `snapshot`
    r_prices,         \* local `prices` (a reference to a list)
    r_alias,          \* TRUE while `prices` is the very list held by price_history
    r_current_price,  \* local `current_price`
    r_volumes,        \* local `volumes`
    r_out,            \* how the handler ended
    r_lag,            \* updater steps taken since the request in progress began
    \* ---- pure signal pipeline (advanced_indicators.py) ----
    s_pc,             \* "input", then the name of the function that was called
    P,                \* prices, in cents
    V,                \* volumes
    cur,              \* current_price, in cents
    result,           \* what the called function returned (or raised)
    frame,            \* the locals of the called function when it returned
    \* ---- the wall clock read by get_current_session (session_analyzer.py) ----
    weekday,          \* now.weekday(): 0 is Monday, 6 is Sunday
    current_time      \* now.strftime("%H:%M"), as minutes since midnight

storeVars  == <<market_cache, price_history, u_pc, u_i, u_price, rounds, ticks>>
readerVars == <<r_pc, r_endpoint, r_symbol, r_snapshot, r_prices, r_alias,
                r_current_price, r_volumes, r_out>>
inputVars  == <<P, V, cur, weekday, current_time>>
signalVars == <<s_pc, inputVars, result, frame>>
vars       == <<storeVars, readerVars, r_lag, signalVars>>

-----------------------------------------------------------------------------
(* Bounds of the model *)

MaxRounds == 150      \* passes of the updater over STOCK_SYMBOLS
MaxLag    == 2        \* updater steps that one request may overlap
MaxLen    == 5        \* longest price or volume sequence handed to the pipeline
MaxProfileLen == 4    \* longest price sequence handed to volume_profile alone

-----------------------------------------------------------------------------
(* Values *)

None == [kind |-> "None"]

EmptyDict == [k \in {} |-> <<>>]

\* dict.get(key, default)
DictGet(d, key, default) == IF key \in DOMAIN d THEN d[key] ELSE default

\* DictPut with a fault: the value stored under every key
DictPutAll(d, key, value) == [k \in (DOMAIN d) \cup {key} |-> value]

\* d[key] = value: the new value under key, every other entry as it was
DictPut(d, key, value) == (key :> value) @@ d

\* a float that is present, as opposed to None
Float(v) == [kind |-> "float", v |-> v]

\* an exception leaving a function
Raised(name) == [kind |-> name]

Min(a, b) == IF a <= b THEN a ELSE b

\* list[-n:]
LastN(list, n) ==
    IF Len(list) <= n THEN list ELSE SubSeq(list, Len(list) - n + 1, Len(list))

-----------------------------------------------------------------------------
(* data_provider.py *)

MAX_HISTORY == 100

\* The tracked universe (main.py:30-41)
STOCK_SYMBOLS == <<
    "AAPL", "MSFT", "GOOGL", "AMZN", "NVDA", "TSLA", "META", "XOM", "JNJ", "JPM",
    "V", "WMT", "PG", "UNH", "BAC", "MA", "DIS", "VZ", "CSCO", "INTC",
    "AMD", "CRM", "ADBE", "IBM", "TXN", "QCOM", "HON", "LOW", "CAT", "GE",
    "BA", "NFLX", "PYPL", "SPGI", "SQ", "UBER", "LYFT", "SNAP", "PINS", "ZM",
    "DOCU", "TWLO", "OKTA", "WORKDAY", "SLACK", "MSTR", "ROKU", "TTWO", "RBLX", "SHOP",
    "CCI", "ATVI", "TMUS", "DISH", "CHTR", "CMCSA", "ROST", "BJ", "AZO", "RH",
    "ETSY", "DASH", "O", "STWD", "MAR", "HLT", "OKE", "CPRT", "PLD", "DRE",
    "PSA", "EQR", "AVB", "ESS", "ELS", "EQC", "ARE", "SRC", "RLJ", "GDRX",
    "VICI", "MGM", "PEN", "LPX", "IRM", "GPRE", "AMT", "EQIX", "CORe", "LAUR",
    "NRG", "NEE", "DUK", "SO", "AEP", "XEL", "SLG", "DEI", "SBAC", "FSV" >>

Tracked == {STOCK_SYMBOLS[i] : i \in 1..Len(STOCK_SYMBOLS)}

\* What the requests watched by Spec ask for: the first and the last symbol of
\* a pass and a symbol that is never ticked.
Requestable == {"AAPL", "FSV", "ZZZZ"}

\* The passes during which Spec lets requests in, by the number of passes
\* completed before: the first pass, which fills the empty store, and the
\* first pass that overflows the lists.
RequestPasses == {0, MAX_HISTORY}

\* round(uniform(170, 190), 2) (line 8) as drawn by the n-th tick of
\* STOCK_SYMBOLS[i]: the name of that draw, a number of its own for every i
\* and n.  It stands for a price of 170.00 to 190.00, whichever the generator
\* gave.
UniformPrice(i, n) == n * (Len(STOCK_SYMBOLS) + 1) + i

\* int(time.time()) (line 16): an int, its value not kept
Timestamp == [kind |-> "int"]

\* Truncated with a fault: the oldest entries kept ([:MAX_HISTORY]); one entry
\* too many kept
TruncatedOldest(list) == IF Len(list) <= MAX_HISTORY THEN list ELSE SubSeq(list, 1, MAX_HISTORY)

TruncatedOneMore(list) == LastN(list, MAX_HISTORY + 1)

\* price_history[symbol][-MAX_HISTORY:]
Truncated(list) == LastN(list, MAX_HISTORY)

Snapshot(symbol, price, timestamp) ==
    [kind |-> "dict", symbol |-> symbol, price |-> price, timestamp |-> timestamp]

-----------------------------------------------------------------------------
(* The updater: main.py:43-47 calling update_market_snapshot per symbol.   *)
(* update_market_snapshot has no lock and the handlers run in other        *)
(* threads, so each statement that touches the shared dicts is a step.     *)

USymbol == STOCK_SYMBOLS[u_i]

\* A request is short next to the updater's 5 s period: at most MaxLag steps
\* of the updater fall within one request.
UStep ==
    /\ r_pc = "idle" \/ r_lag < MaxLag
    /\ r_lag' = IF r_pc = "idle" THEN 0 ELSE r_lag + 1

\* update_market_snapshot line 8 and the setdefault half of line 10
UDraw ==
    /\ UStep
    /\ u_pc = "call"
    /\ u_price' = UniformPrice(u_i, ticks[USymbol] + 1)
    /\ price_history' = IF USymbol \in DOMAIN price_history
                          THEN price_history
                          ELSE DictPut(price_history, USymbol, <<>>)
    /\ u_pc' = "append"
    /\ UNCHANGED <<market_cache, u_i, rounds, ticks>>
    /\ UNCHANGED <<readerVars, signalVars>>

\* line 10, the append half: list.append mutates the list in place, so a
\* handler holding a reference to that list sees it grow.
UAppend ==
    /\ UStep
    /\ u_pc = "append"
    /\ price_history' = [price_history EXCEPT ![USymbol] = Append(@, u_price)]
    /\ ticks' = [ticks EXCEPT ![USymbol] = @ + 1]
    /\ r_prices' = IF r_alias /\ r_symbol = USymbol THEN Append(r_prices, u_price) ELSE r_prices
    /\ u_pc' = "truncate"
    /\ UNCHANGED <<market_cache, u_i, u_price, rounds>>
    /\ UNCHANGED <<r_pc, r_endpoint, r_symbol, r_snapshot, r_alias, r_current_price,
                   r_volumes, r_out>>
    /\ UNCHANGED signalVars

\* line 11: the slice is a new list, bound in place of the old one; a handler
\* holding the old list keeps it, detached from the store.
UTruncate ==
    /\ UStep
    /\ u_pc = "truncate"
    /\ price_history' = [price_history EXCEPT ![USymbol] = Truncated(@)]
    /\ r_alias' = IF r_symbol = USymbol THEN FALSE ELSE r_alias
    /\ u_pc' = "store"
    /\ UNCHANGED <<market_cache, u_i, u_price, rounds, ticks>>
    /\ UNCHANGED <<r_pc, r_endpoint, r_symbol, r_snapshot, r_prices, r_current_price,
                   r_volumes, r_out>>
    /\ UNCHANGED signalVars

\* lines 13-17, then the for loop of main.py:45 moves on
UStore ==
    /\ UStep
    /\ u_pc = "store"
    /\ market_cache' = DictPut(market_cache, USymbol, Snapshot(USymbol, u_price, Timestamp))
    /\ IF u_i < Len(STOCK_SYMBOLS)
         THEN /\ u_i' = u_i + 1
              /\ u_pc' = "call"
              /\ rounds' = rounds
         ELSE /\ u_i' = 1
              /\ u_pc' = "sleep"
              /\ rounds' = rounds + 1
    /\ UNCHANGED <<price_history, u_price, ticks>>
    /\ UNCHANGED <<readerVars, signalVars>>

\* a step of update_market_snapshot
UTick == UDraw \/ UAppend \/ UTruncate \/ UStore

\* the place of a tracked symbol in STOCK_SYMBOLS
IndexOf(symbol) == CHOOSE i \in 1..Len(STOCK_SYMBOLS) : STOCK_SYMBOLS[i] = symbol

\* update_market_snapshot(symbol) run from its first line to its last on the
\* store as it is: the price it draws, the list and the snapshot it leaves
\* under `symbol`
DrawnFor(symbol) == UniformPrice(IndexOf(symbol), ticks[symbol] + 1)

UpdatedList(symbol) ==
    Truncated(Append(DictGet(price_history, symbol, <<>>), DrawnFor(symbol)))

UpdatedSnapshot(symbol) == Snapshot(symbol, DrawnFor(symbol), Timestamp)

\* main.py:45-46 run from the first symbol to the last without another thread
\* being scheduled in between (no request is in progress).  No symbol occurs
\* twice in STOCK_SYMBOLS and a tick writes under its own symbol only, so the
\* loop leaves every symbol ticked once: the state the steps of UTick reach
\* when they are taken one after the other.
UPass ==
    /\ r_pc = "idle"
    /\ u_pc = "call"
    /\ u_i = 1
    /\ price_history' = [s \in Tracked |-> UpdatedList(s)]
    /\ market_cache' = [s \in Tracked |-> UpdatedSnapshot(s)]
    /\ ticks' = [s \in Tracked |-> ticks[s] + 1]
    /\ u_price' = DrawnFor(STOCK_SYMBOLS[Len(STOCK_SYMBOLS)])
    /\ u_pc' = "sleep"
    /\ rounds' = rounds + 1
    /\ r_lag' = 0
    /\ UNCHANGED u_i
    /\ UNCHANGED <<readerVars, signalVars>>

\* main.py:47: await asyncio.sleep(5)
USleep ==
    /\ UStep
    /\ u_pc = "sleep"
    /\ rounds < MaxRounds
    /\ u_pc' = "call"
    /\ UNCHANGED <<market_cache, price_history, u_i, u_price, rounds, ticks>>
    /\ UNCHANGED <<readerVars, signalVars>>

updater == UTick \/ UPass \/ USleep

-----------------------------------------------------------------------------
(* The request handlers /latest (main.py:95-124), /session                 *)
(* (main.py:60-93) and /news (main.py:55-58), up to the value or the       *)
(* exception they end with.                                                *)

\* base_volume * random.uniform(0.8, 1.5) (main.py:106-108, 72-73) as drawn by
\* the i-th turn of the request's loop: the name of that draw.  It stands for
\* a float from 4000000 to 7500000, drawn anew at every turn.
UniformVolume(i) == i

\* get_cached_snapshot, first element of the tuple: market_cache.get(symbol)
CachedSnapshot(symbol) == DictGet(market_cache, symbol, None)

\* get_cached_snapshot, second element: price_history.get(symbol, [])
CachedPrices(symbol) == DictGet(price_history, symbol, <<>>)

\* IsDefaultInput with a fault: `and` for `or`
IsDefaultInputBoth(prices, volumes) == Len(prices) < 2 /\ Len(volumes) < 2

\* combined_signal's guard (advanced_indicators.py:205)
IsDefaultInput(prices, volumes) == Len(prices) < 2 \/ Len(volumes) < 2

\* How combined_signal(prices, volumes, _) ends: order_flow (lines 32-42)
\* reads volumes[i] for every i < len(prices), which raises IndexError when
\* volumes is the shorter list.
SignalOutcome(prices, volumes) ==
    IF IsDefaultInput(prices, volumes) THEN "default"
    ELSE IF Len(volumes) < Len(prices) THEN "IndexError"
    ELSE "computed"

\* a request arrives; /session always asks for AAPL (main.py:64) and /news
\* for no symbol
RStart ==
    /\ r_pc = "idle"
    /\ u_pc # "off"
    /\ rounds \in RequestPasses
    /\ \E e \in {"latest", "session", "news"} :
         \E sym \in Requestable \cup {"none"} :
            /\ e = "session" => sym = "AAPL"
            /\ e = "latest" => sym \in Requestable
            /\ e = "news" => sym = "none"
            /\ r_endpoint' = e
            /\ r_symbol' = sym
            /\ r_pc' = IF e = "news" THEN "news" ELSE "cache"
    /\ UNCHANGED <<r_snapshot, r_prices, r_alias, r_current_price, r_volumes, r_out>>
    /\ UNCHANGED <<storeVars, signalVars, r_lag>>

\* main.py:58: generate_news(count=8) draws from the generator and reads
\* nothing of the store
RNews ==
    /\ r_pc = "news"
    /\ r_out' = "news"
    /\ r_pc' = "done"
    /\ UNCHANGED <<r_endpoint, r_symbol, r_snapshot, r_prices, r_alias, r_current_price,
                   r_volumes>>
    /\ UNCHANGED <<storeVars, signalVars, r_lag>>

\* data_provider.py:20, left operand
RReadCache ==
    /\ r_pc = "cache"
    /\ r_snapshot' = CachedSnapshot(r_symbol)
    /\ r_pc' = "history"
    /\ UNCHANGED <<r_endpoint, r_symbol, r_prices, r_alias, r_current_price, r_volumes, r_out>>
    /\ UNCHANGED <<storeVars, signalVars, r_lag>>

\* data_provider.py:20, right operand: the list itself is returned, not a copy
RReadHistory ==
    /\ r_pc = "history"
    /\ r_prices' = CachedPrices(r_symbol)
    /\ r_alias' = (r_symbol \in DOMAIN price_history)
    /\ r_pc' = "price"
    /\ UNCHANGED <<r_endpoint, r_symbol, r_snapshot, r_current_price, r_volumes, r_out>>
    /\ UNCHANGED <<storeVars, signalVars, r_lag>>

\* main.py:100 / main.py:65: snapshot.get("price", 100); None has no .get
RPrice ==
    /\ r_pc = "price"
    /\ IF r_snapshot = None
         THEN /\ r_out' = "AttributeError"
              /\ r_pc' = "done"
              /\ UNCHANGED r_current_price
         ELSE /\ r_current_price' = r_snapshot.price
              /\ r_pc' = "volumes"
              /\ UNCHANGED r_out
    /\ UNCHANGED <<r_endpoint, r_symbol, r_snapshot, r_prices, r_alias, r_volumes>>
    /\ UNCHANGED <<storeVars, signalVars, r_lag>>

\* main.py:103-109 / main.py:69-74: one volume per price the list holds when
\* the loop ends
RVolumes ==
    /\ r_pc = "volumes"
    /\ r_volumes' = [i \in 1..Len(r_prices) |-> UniformVolume(i)]
    /\ r_pc' = "signal"
    /\ UNCHANGED <<r_endpoint, r_symbol, r_snapshot, r_prices, r_alias, r_current_price, r_out>>
    /\ UNCHANGED <<storeVars, signalVars, r_lag>>

\* main.py:112 / main.py:77: combined_signal(prices, volumes, current_price).
\* Only how the call ends is kept here; its value is the subject of SpecSignal.
\* /session goes on to get_session_metrics (main.py:84-91), which reads the
\* same locals and writes nothing shared.
RSignal ==
    /\ r_pc = "signal"
    /\ r_out' = SignalOutcome(r_prices, r_volumes)
    /\ r_pc' = "done"
    /\ UNCHANGED <<r_endpoint, r_symbol, r_snapshot, r_prices, r_alias, r_current_price,
                   r_volumes>>
    /\ UNCHANGED <<storeVars, signalVars, r_lag>>

\* the response (or the error) goes out and the handler's locals die
RReturn ==
    /\ r_pc = "done"
    /\ r_pc' = "idle"
    /\ r_endpoint' = "none"
    /\ r_symbol' = "none"
    /\ r_snapshot' = None
    /\ r_prices' = <<>>
    /\ r_alias' = FALSE
    /\ r_current_price' = 0
    /\ r_volumes' = <<>>
    /\ r_out' = "none"
    /\ r_lag' = 0
    /\ UNCHANGED <<storeVars, signalVars>>

latest == RStart \/ RNews \/ RReadCache \/ RReadHistory \/ RPrice \/ RVolumes \/ RSignal \/ RReturn

-----------------------------------------------------------------------------
(* Specification of the store *)

ReaderInit ==
    /\ r_pc = "idle"
    /\ r_endpoint = "none"
    /\ r_symbol = "none"
    /\ r_snapshot = None
    /\ r_prices = <<>>
    /\ r_alias = FALSE
    /\ r_current_price = 0
    /\ r_volumes = <<>>
    /\ r_out = "none"
    /\ r_lag = 0

SignalOff ==
    /\ s_pc = "off"
    /\ P = <<>>
    /\ V = <<>>
    /\ cur = 0
    /\ result = None
    /\ frame = None
    /\ weekday = 0
    /\ current_time = 0

Init ==
    /\ market_cache = EmptyDict
    /\ price_history = EmptyDict
    /\ u_pc = "call"
    /\ u_i = 1
    /\ u_price = 0
    /\ rounds = 0
    /\ ticks = [s \in Tracked |-> 0]
    /\ ReaderInit
    /\ SignalOff

Next == updater \/ latest

Spec == Init /\ [][Next]_vars

-----------------------------------------------------------------------------
(* Properties of the store, checked under Spec *)

\* update_market_snapshot(s) has begun to change the store and has not returned
InTick(s) == u_pc \in {"append", "truncate", "store"} /\ USymbol = s

\* the prices that the ticks of STOCK_SYMBOLS[i] draw, in the order of the ticks
Draws == [i \in 1..Len(STOCK_SYMBOLS) |-> [n \in 1..MaxRounds + 1 |-> UniformPrice(i, n)]]

\* the last m of the first n prices recorded for STOCK_SYMBOLS[i], oldest first
Recorded(i, n, m) == SubSeq(Draws[i], n - m + 1, n)

\* C1: after n completed ticks of a symbol its observations are exactly the
\* last min(n, 100) recorded prices, oldest first.
C1_BoundedRing ==
    \A i \in 1..Len(STOCK_SYMBOLS) :
        LET s == STOCK_SYMBOLS[i]
            n == ticks[s]
        IN  (~InTick(s) /\ n >= 1) =>
                /\ s \in DOMAIN price_history
                /\ price_history[s] = Recorded(i, n, Min(n, 100))

\* 150 ticks done: 100 entries are held, the first of them is tick 51
C1_Witness ==
    /\ ~InTick("AAPL")
    /\ ticks["AAPL"] = 150
    /\ Len(price_history["AAPL"]) = 100
    /\ price_history["AAPL"][1] = UniformPrice(1, 51)
    /\ price_history["AAPL"][100] = UniformPrice(1, 150)

\* C2: the observation sequence a request obtained never holds more than
\* 100 entries.
C2_ReadNeverOverlong == Len(r_prices) <= 100

\* C3: when the request calls combined_signal, the volumes it synthesized are
\* as many as the prices it passes.
C3_VolumesMatchPrices == r_pc = "signal" => Len(r_volumes) = Len(r_prices)

\* C4: a read of a symbol that was never ticked yields a placeholder snapshot
\* (a dict, not None) and an empty sequence, and the request does not fail.
C4_UnseenReadIsPlaceholder ==
    (r_symbol = "ZZZZ" /\ r_pc \in {"price", "volumes", "signal", "done"}) =>
        /\ r_snapshot.kind = "dict"
        /\ r_prices = <<>>
        /\ r_out # "AttributeError"

\* C5: while no tick is in progress, every ticked symbol's latest price is the
\* last of its observations, which number between 1 and 100.
C5_LatestIsLastObservation ==
    u_pc \in {"call", "sleep"} =>
        \A s \in Tracked :
            ticks[s] >= 1 =>
                /\ s \in DOMAIN market_cache
                /\ s \in DOMAIN price_history
                /\ Len(price_history[s]) >= 1
                /\ Len(price_history[s]) <= 100
                /\ market_cache[s].price = price_history[s][Len(price_history[s])]

\* every symbol ticked past the capacity, the updater asleep
C5_Witness ==
    /\ u_pc = "sleep"
    /\ ticks["MSFT"] = 101
    /\ Len(price_history["MSFT"]) = 100
    /\ market_cache["MSFT"].price = UniformPrice(2, 101)

\* dict d2 differs from dict d1 at most under the key `key`
OnlyKeyChanged(d1, d2, key) ==
    /\ DOMAIN d2 \subseteq (DOMAIN d1) \cup {key}
    /\ \A k \in (DOMAIN d1) \ {key} : k \in DOMAIN d2 /\ d2[k] = d1[k]

\* C17: a step of the tick of symbol s changes only s's observations and s's
\* latest snapshot; those of every other symbol are unchanged and no entry
\* appears for another symbol.
C17_TickTouchesOnlyItsSymbol ==
    [][UTick => /\ OnlyKeyChanged(price_history, price_history', USymbol)
                /\ OnlyKeyChanged(market_cache, market_cache', USymbol)]_vars

\* the second tick of MSFT about to store its snapshot: AAPL's two
\* observations and its snapshot are as its own second tick left them
C17_Witness ==
    /\ u_pc = "store"
    /\ USymbol = "MSFT"
    /\ ticks["MSFT"] = 2
    /\ ticks["AAPL"] = 2
    /\ price_history["AAPL"] = Recorded(1, 2, 2)
    /\ market_cache["AAPL"].price = UniformPrice(1, 2)
    /\ market_cache["MSFT"].price = UniformPrice(2, 1)

-----------------------------------------------------------------------------
(* Arithmetic of advanced_indicators.py.                                   *)
(*                                                                         *)
(* The code computes in binary floating point.  The model computes the     *)
(* exact decimal value with integers and, where the float's deviation from *)
(* that value decides the outcome (a quotient exactly half-way between two *)
(* hundredths, a comparison of two equal exact values), it allows both     *)
(* outcomes: every function below yields the SET of its possible returns.  *)

Abs(x) == IF x < 0 THEN -x ELSE x

Max(a, b) == IF a >= b THEN a ELSE b

Range(seq) == {seq[i] : i \in 1..Len(seq)}

\* max(list), min(list)
MaxOf(seq) == CHOOSE x \in Range(seq) : \A y \in Range(seq) : y <= x

MinOf(seq) == CHOOSE x \in Range(seq) : \A y \in Range(seq) : x <= y

\* sum(list)
RECURSIVE SumTo(_, _)
SumTo(seq, n) == IF n = 0 THEN 0 ELSE SumTo(seq, n - 1) + seq[n]

Sum(seq) == SumTo(seq, Len(seq))

\* sum(p * v for p, v in zip(prices, volumes))
RECURSIVE DotTo(_, _, _)
DotTo(a, b, n) == IF n = 0 THEN 0 ELSE DotTo(a, b, n - 1) + a[n] * b[n]

\* round(n / d) for d > 0, to the nearest integer; a tie may go either way
RoundsPos(n, d) ==
    LET q == n \div d
        r == n % d
    IN  IF 2 * r < d THEN {q}
        ELSE IF 2 * r > d THEN {q + 1}
        ELSE {q, q + 1}

Rounds(n, d) == IF n < 0 THEN {0 - v : v \in RoundsPos(0 - n, d)} ELSE RoundsPos(n, d)

\* the truth values `a > b` can take when a and b are floats computed from
\* the exact values x and y
FloatGreater(x, y) == IF x > y THEN {TRUE} ELSE IF x < y THEN {FALSE} ELSE {TRUE, FALSE}

\* max(0, min(1, x)), in hundredths
Clamp01(x) == Max(0, Min(100, x))

-----------------------------------------------------------------------------
(* ema and rsi (indicators.py); prices and the ema in cents, the rsi in     *)
(* hundredths of a point                                                   *)

\* (period + 1) ** n
RECURSIVE Power(_, _)
Power(b, n) == IF n = 0 THEN 1 ELSE b * Power(b, n - 1)

\* ema_value after the first n prices, times (period + 1) ** (n - 1):
\* lines 7-11 with k = 2 / (period + 1) and 1 - k = (period - 1) / (period + 1)
RECURSIVE EmaNum(_, _, _)
EmaNum(prices, period, n) ==
    IF n = 1 THEN prices[1]
    ELSE 2 * prices[n] * Power(period + 1, n - 2) + (period - 1) * EmaNum(prices, period, n - 1)

ema(prices, period) ==
    IF Len(prices) < period THEN {None}
    ELSE IF period + 1 = 0 THEN {Raised("ZeroDivisionError")}
    ELSE IF Len(prices) = 0 THEN {Raised("IndexError")}
    ELSE {Float(v) : v \in Rounds(EmaNum(prices, period, Len(prices)),
                                   Power(period + 1, Len(prices) - 1))}

\* lines 22-27: the sum of the rises and the sum of the falls over the last
\* `period` steps (i = 1 is the newest step)
RECURSIVE Gains(_, _)
Gains(prices, i) ==
    IF i = 0 THEN 0
    ELSE LET delta == prices[Len(prices) - i + 1] - prices[Len(prices) - i]
         IN  Gains(prices, i - 1) + (IF delta > 0 THEN delta ELSE 0)

RECURSIVE Losses(_, _)
Losses(prices, i) ==
    IF i = 0 THEN 0
    ELSE LET delta == prices[Len(prices) - i + 1] - prices[Len(prices) - i]
         IN  Losses(prices, i - 1) + (IF delta > 0 THEN 0 ELSE Abs(delta))

\* lines 29-36: avg_loss == 0 gives 100.0, else 100 - 100 / (1 + rs), which is
\* 100 * gains / (gains + losses)
rsi(prices, period) ==
    IF Len(prices) < period + 1 THEN {None}
    ELSE LET gains == Gains(prices, Max(period, 0))
             losses == Losses(prices, Max(period, 0))
         IN  IF losses = 0 THEN {Float(10000)}
             ELSE {Float(v) : v \in Rounds(10000 * gains, gains + losses)}

-----------------------------------------------------------------------------
(* vwap (advanced_indicators.py:4-19); prices in cents, the result in cents *)

vwap(prices, volumes) ==
    IF Len(prices) < 2 \/ Len(volumes) < 2 THEN {None}
    ELSE LET tp_volume == DotTo(prices, volumes, Min(Len(prices), Len(volumes)))
             total_volume == Sum(volumes)
         IN  IF total_volume = 0 THEN {None}
             ELSE {Float(v) : v \in Rounds(tp_volume, total_volume)}

-----------------------------------------------------------------------------
(* order_flow (advanced_indicators.py:21-56); pressures and ratio in        *)
(* hundredths; the volume sums are kept doubled so that a half stays whole *)

OrderFlowDefault == [buy_pressure |-> 50, sell_pressure |-> 50, ratio |-> 100]

\* twice the buy volume attributed by the steps 1 .. n-1 of the loop (i = 2..n here)
RECURSIVE BuyVolume2(_, _, _)
BuyVolume2(prices, volumes, n) ==
    IF n <= 1 THEN 0
    ELSE BuyVolume2(prices, volumes, n - 1) +
         (IF prices[n] > prices[n - 1] THEN 2 * volumes[n]
          ELSE IF prices[n] < prices[n - 1] THEN 0
          ELSE volumes[n])

RECURSIVE SellVolume2(_, _, _)
SellVolume2(prices, volumes, n) ==
    IF n <= 1 THEN 0
    ELSE SellVolume2(prices, volumes, n - 1) +
         (IF prices[n] > prices[n - 1] THEN 0
          ELSE IF prices[n] < prices[n - 1] THEN 2 * volumes[n]
          ELSE volumes[n])

\* order_flow with a fault: the pressures taken over all the volume, the
\* first candle's included, not over the volume the loop attributed
OrderFlowOverAllVolume(prices, volumes) ==
    IF Len(prices) < 2 \/ Len(volumes) < 2 THEN {OrderFlowDefault}
    ELSE IF Len(volumes) < Len(prices) THEN {Raised("IndexError")}
    ELSE LET buy2 == BuyVolume2(prices, volumes, Len(prices))
             sell2 == SellVolume2(prices, volumes, Len(prices))
             total2 == 2 * Sum(volumes)
         IN  IF total2 = 0 THEN {OrderFlowDefault}
             ELSE {[buy_pressure |-> b, sell_pressure |-> sp, ratio |-> r] :
                      b \in Rounds(100 * buy2, total2),
                      sp \in Rounds(100 * sell2, total2),
                      r \in Rounds(100000 * buy2, 1000 * sell2 + 2)}

order_flow(prices, volumes) ==
    IF Len(prices) < 2 \/ Len(volumes) < 2 THEN {OrderFlowDefault}
    ELSE IF Len(volumes) < Len(prices) THEN {Raised("IndexError")}
    ELSE LET buy2 == BuyVolume2(prices, volumes, Len(prices))
             sell2 == SellVolume2(prices, volumes, Len(prices))
             total2 == buy2 + sell2
         IN  IF total2 = 0 THEN {OrderFlowDefault}
             ELSE {[buy_pressure |-> b, sell_pressure |-> sp, ratio |-> r] :
                      b \in Rounds(100 * buy2, total2),
                      sp \in Rounds(100 * sell2, total2),
                      r \in Rounds(100000 * buy2, 1000 * sell2 + 2)}

-----------------------------------------------------------------------------
(* volume_profile (advanced_indicators.py:58-101); prices and bucket keys  *)
(* in cents, volumes whole numbers                                         *)

BINS == 10

VALUE_AREA_SHARE == 70

\* cents in the half unit of line 78's `/ 2`
HALF == 50

\* line 65
VolumeProfileDefault(prices) ==
    [poc |-> (IF Len(prices) > 0 THEN prices[Len(prices)] ELSE 0), value_area |-> <<>>]

\* round((price - min_price) / bin_size * 2) with bin_size = (max - min) / bins
BinStep(price, min_price, max_price, bins) ==
    Rounds(2 * bins * (price - min_price), max_price - min_price)

\* the results of line 78's rounding for every price of the set S: one step
\* per price (the same price rounds the same way each time it is met)
RECURSIVE BinSteps(_, _, _, _)
BinSteps(S, min_price, max_price, bins) ==
    IF S = {} THEN {EmptyDict}
    ELSE LET price == CHOOSE x \in S : TRUE
         IN  {DictPut(f, price, k) :
                 f \in BinSteps(S \ {price}, min_price, max_price, bins),
                 k \in BinStep(price, min_price, max_price, bins)}

\* line 78: bin_key = step / 2 + min_price
BinKey(step, min_price) == step * HALF + min_price

\* lines 75-79: bin_volumes after the first n pairs of zip(prices, volumes), in
\* insertion order
RECURSIVE BinVolumes(_, _, _, _, _)
BinVolumes(prices, volumes, steps, min_price, n) ==
    IF n = 0 THEN <<>>
    ELSE LET before == BinVolumes(prices, volumes, steps, min_price, n - 1)
             bin_key == BinKey(steps[prices[n]], min_price)
         IN  IF \E i \in 1..Len(before) : before[i].key = bin_key
               THEN [i \in 1..Len(before) |->
                        IF before[i].key = bin_key
                          THEN [key |-> bin_key, vol |-> before[i].vol + volumes[n]]
                          ELSE before[i]]
               ELSE Append(before, [key |-> bin_key, vol |-> volumes[n]])

\* line 82: max(bin_volumes, key=bin_volumes.get), the first of the largest
Poc(bin_volumes) ==
    LET i == CHOOSE i \in 1..Len(bin_volumes) :
                /\ \A j \in 1..Len(bin_volumes) : bin_volumes[j].vol <= bin_volumes[i].vol
                /\ \A j \in 1..(i - 1) : bin_volumes[j].vol < bin_volumes[i].vol
    IN  bin_volumes[i].key

\* line 88: sorted(..., key=volume, reverse=True); the sort is stable, equal
\* volumes stay in insertion order
SortedBins(bin_volumes) ==
    LET n == Len(bin_volumes)
        Rank(i) == 1 + Cardinality({j \in 1..n :
                          \/ bin_volumes[j].vol > bin_volumes[i].vol
                          \/ (bin_volumes[j].vol = bin_volumes[i].vol /\ j < i)})
    IN  [r \in 1..n |-> bin_volumes[CHOOSE i \in 1..n : Rank(i) = r]]

\* cumulative_vol after m entries of sorted_bins
RECURSIVE CumulativeVol(_, _)
CumulativeVol(sorted_bins, m) ==
    IF m = 0 THEN 0 ELSE CumulativeVol(sorted_bins, m - 1) + sorted_bins[m].vol

\* Taken with a fault: the loop never breaks
TakenAll(sorted_bins) == Len(sorted_bins)

\* lines 85-96: how many entries the loop takes before it breaks (all of them
\* if it never does); cumulative_vol >= total_vol * 0.7
Taken(sorted_bins) ==
    LET n == Len(sorted_bins)
        total_vol == CumulativeVol(sorted_bins, n)
        Reached(m) == 100 * CumulativeVol(sorted_bins, m) >= VALUE_AREA_SHARE * total_vol
    IN  IF \E m \in 1..n : Reached(m)
          THEN CHOOSE m \in 1..n : Reached(m) /\ \A k \in 1..(m - 1) : ~Reached(k)
          ELSE n

\* sorted(list) of distinct numbers
SortedAscending(S) ==
    [r \in 1..Cardinality(S) |->
        CHOOSE x \in S : Cardinality({y \in S : y < x}) = r - 1]

\* lines 81-101 once bin_volumes is known: the return and the locals
ProfileOf(bin_volumes) ==
    LET sorted_bins == SortedBins(bin_volumes)
    IN  [ret |-> [poc |-> Poc(bin_volumes),
                  value_area |->
                     SortedAscending({sorted_bins[m].key : m \in 1..Taken(sorted_bins)})],
         frame |-> [kind |-> "frame", bin_volumes |-> bin_volumes]]

\* the possible runs of volume_profile: what it returns (or raises) and its locals
VolumeProfileRuns(prices, volumes, bins) ==
    IF Len(prices) < 2 \/ Len(volumes) < 2
      THEN {[ret |-> VolumeProfileDefault(prices), frame |-> None]}
    ELSE LET min_price == MinOf(prices)
             max_price == MaxOf(prices)
             n == Min(Len(prices), Len(volumes))
         IN  IF min_price = max_price
               THEN {[ret |-> [poc |-> min_price, value_area |-> <<min_price>>],
                      frame |-> None]}
             ELSE IF bins = 0 THEN {[ret |-> Raised("ZeroDivisionError"), frame |-> None]}
             ELSE {ProfileOf(BinVolumes(prices, volumes, steps, min_price, n)) :
                      steps \in BinSteps(Range(prices), min_price, max_price, bins)}

volume_profile(prices, volumes, bins) ==
    {run.ret : run \in VolumeProfileRuns(prices, volumes, bins)}

-----------------------------------------------------------------------------
(* microstructure (advanced_indicators.py:103-147); imbalance and          *)
(* efficiency in hundredths.  The volatility a computation yields (lines   *)
(* 111-122) is not carried: it is a square root that no score reads, and   *)
(* line 114 guards its one division.                                        *)

MicrostructureDefault == [volatility |-> 0, imbalance |-> 50, efficiency |-> 50]

RECENT == 20

\* prices[-20:] if len(prices) >= 20 else prices
Recent(list) == LastN(list, RECENT)

\* Imbalance with a fault: the position taken from the first price, not from
\* the lowest
ImbalanceFromFirst(recent_prices) ==
    LET price_range == MaxOf(recent_prices) - MinOf(recent_prices)
        position == recent_prices[Len(recent_prices)] - recent_prices[1]
    IN  Rounds(1000 * position, 10 * price_range + 1)

\* round((last - min) / (price_range + 0.001), 2)
Imbalance(recent_prices) ==
    LET price_range == MaxOf(recent_prices) - MinOf(recent_prices)
        position == recent_prices[Len(recent_prices)] - MinOf(recent_prices)
    IN  Rounds(1000 * position, 10 * price_range + 1)

\* round(min(price_move / (avg_volume + 0.001), 1.0), 2)
Efficiency(recent_prices, recent_volumes) ==
    LET n == Len(recent_volumes)
        price_move == Abs(recent_prices[Len(recent_prices)] - recent_prices[1])
        num == 1000 * price_move * n
        den == 1000 * Sum(recent_volumes) + n
    IN  IF num >= 100 * den THEN {100} ELSE Rounds(num, den)

microstructure(prices, volumes) ==
    IF Len(prices) < 2 \/ Len(volumes) < 2 THEN {MicrostructureDefault}
    ELSE {[imbalance |-> im, efficiency |-> ef] :
             im \in Imbalance(Recent(prices)),
             ef \in Efficiency(Recent(prices), Recent(volumes))}

-----------------------------------------------------------------------------
(* market_open_setup (advanced_indicators.py:149-192); gap, momentum and   *)
(* volume_strength in hundredths                                            *)

MarketOpenSetupDefault == [gap |-> 0, momentum |-> 50, strength |-> 0]

FLAG_POINTS == 20

ALIGNED_POINTS == 40

STRENGTH_CAP == 100

EARLY == 5

\* round((current_price - open_price) / open_price * 100, 2) if open_price != 0 else 0
Gap(prices) ==
    LET open_price == prices[1]
        current_price == prices[Len(prices)]
    IN  IF open_price # 0 THEN Rounds((current_price - open_price) * 10000, open_price)
        ELSE {0}

\* the sign and the size of momentum, which line 169 leaves unrounded:
\* numerator and denominator of (early[-1] - early[0]) / early[0]
MomentumNum(prices) == IF prices[1] # 0 THEN prices[Min(EARLY, Len(prices))] - prices[1] ELSE 0

MomentumDen(prices) == IF prices[1] # 0 THEN prices[1] ELSE 1

\* round(current_volume / (avg_volume + 0.001), 2)
VolumeStrength(volumes) ==
    LET n == Len(volumes)
    IN  Rounds(100000 * n * volumes[n], 1000 * Sum(volumes) + n)

\* lines 184-185: if gap > 0 and momentum > 0: strength_score += 40
AlignedFlag(gap, momentum_num) ==
    IF gap > 0 /\ momentum_num > 0 THEN ALIGNED_POINTS ELSE 0

\* lines 177-185 and the cap of line 191
SetupStrength(gap, momentum_big, momentum_num, volume_strength) ==
    Min((IF Abs(gap) > 100 THEN FLAG_POINTS ELSE 0)
        + (IF momentum_big THEN FLAG_POINTS ELSE 0)
        + (IF volume_strength > 150 THEN FLAG_POINTS ELSE 0)
        + AlignedFlag(gap, momentum_num),
        STRENGTH_CAP)

market_open_setup(prices, volumes) ==
    IF Len(prices) < 5 \/ Len(volumes) < 5 THEN {MarketOpenSetupDefault}
    ELSE LET mnum == MomentumNum(prices)
             mden == MomentumDen(prices)
         IN  {[gap |-> g, momentum |-> mo, volume_strength |-> vs,
               setup_strength |-> SetupStrength(g, big, mnum, vs)] :
                 g \in Gap(prices),
                 big \in FloatGreater(Abs(mnum) * 100, mden),
                 mo \in Rounds(mnum * 10000, mden),
                 vs \in VolumeStrength(volumes)}

-----------------------------------------------------------------------------
(* combined_signal (advanced_indicators.py:194-288).  Sub-scores are in    *)
(* hundredths and the weights in hundredths, so the weighted sum is exact  *)
(* in units of 1/10000.  The local `combined` is the pair of that exact    *)
(* value x and the sign e of the float's deviation from it, which matters  *)
(* on a cut point and on a rounding tie only (e is 0 everywhere else).     *)

W_SETUP == 20

W_FLOW == 25

W_VWAP == 20

W_MICRO == 15

W_VOLUME == 20

CUT_STRONG_BUY == 7500

CUT_BUY == 6000

CUT_HOLD == 4000

CUT_SELL == 2500

HOLD_CONFIDENCE == 50

Cuts == {CUT_STRONG_BUY, CUT_BUY, CUT_HOLD, CUT_SELL}

\* lines 206-218
CombinedSignalDefault(current_price) ==
    [kind |-> "dict", signal |-> "HOLD", confidence |-> 50, combined_score |-> 50,
     components |->
        [market_open_setup |-> [gap |-> 0, momentum |-> 0, setup_strength |-> 0],
         order_flow |-> [buy_pressure |-> 50, sell_pressure |-> 50, ratio |-> 100],
         vwap_price |-> Float(current_price),
         vwap_distance |-> 0,
         microstructure |-> [volatility |-> 0, imbalance |-> 50, efficiency |-> 50],
         volume_profile |-> [poc |-> current_price, value_area |-> <<current_price>>]]]

\* `if vwap_price:` is false for None and for 0.0
Truthy(vwap_price) == vwap_price.kind = "float" /\ vwap_price.v # 0

\* lines 228-233: above_vwap
AboveVwap(vwap_price, current_price) ==
    IF Truthy(vwap_price)
      THEN (IF current_price > vwap_price.v THEN 100 ELSE 0)
      ELSE 50

\* VwapScore with a fault: no neutral 0.5, an absent vwap counts as not exceeded
VwapScoreBinary(vwap_price, current_price) ==
    IF Truthy(vwap_price) /\ current_price > vwap_price.v THEN 100 ELSE 0

\* line 238: max(0, min(1, 0.5 + (above_vwap - 0.5) * 2))
VwapScore(vwap_price, current_price) ==
    Clamp01(50 + (AboveVwap(vwap_price, current_price) - 50) * 2)

\* lines 229/232 and 284: round(vwap_distance, 2) if vwap_price else 0
VwapDistance(vwap_price, current_price) ==
    IF Truthy(vwap_price)
      THEN Rounds((current_price - vwap_price.v) * 10000, vwap_price.v)
      ELSE {0}

\* setup.get("setup_strength", 0)
SetupStrengthOf(setup) == IF "setup_strength" \in DOMAIN setup THEN setup.setup_strength ELSE 0

\* lines 251-257
WeightedSum(setup_score, flow_score, vwap_score, micro_score, vol_score) ==
    setup_score * W_SETUP + flow_score * W_FLOW + vwap_score * W_VWAP
      + micro_score * W_MICRO + vol_score * W_VOLUME

\* the signs the float's deviation can have where it matters
Deviations(x) == IF x \in Cuts \/ x % 100 = 50 THEN {-1, 0, 1} ELSE {0}

\* combined > cut, on floats
Exceeds(combined, cut) == combined.x > cut \/ (combined.x = cut /\ combined.e > 0)

\* SignalOf with a fault: the brackets closed on their lower bound (>= for >)
SignalOfInclusive(combined) ==
    IF combined.x >= CUT_STRONG_BUY THEN "STRONG BUY"
    ELSE IF combined.x >= CUT_BUY THEN "BUY"
    ELSE IF combined.x >= CUT_HOLD THEN "HOLD"
    ELSE IF combined.x >= CUT_SELL THEN "SELL"
    ELSE "STRONG SELL"

\* SignalOf with a fault: the tests of the HOLD and SELL branches exchanged
SignalOfSwapped(combined) ==
    IF Exceeds(combined, CUT_STRONG_BUY) THEN "STRONG BUY"
    ELSE IF Exceeds(combined, CUT_BUY) THEN "BUY"
    ELSE IF Exceeds(combined, CUT_SELL) THEN "HOLD"
    ELSE IF Exceeds(combined, CUT_HOLD) THEN "SELL"
    ELSE "STRONG SELL"

\* lines 260-274, the label
SignalOf(combined) ==
    IF Exceeds(combined, CUT_STRONG_BUY) THEN "STRONG BUY"
    ELSE IF Exceeds(combined, CUT_BUY) THEN "BUY"
    ELSE IF Exceeds(combined, CUT_HOLD) THEN "HOLD"
    ELSE IF Exceeds(combined, CUT_SELL) THEN "SELL"
    ELSE "STRONG SELL"

\* round(combined, 2): to the nearest hundredth; a float that sits exactly on
\* a tie goes to the even neighbour
Round2(combined) ==
    LET q == combined.x \div 100
    IN  IF combined.x % 100 < 50 THEN q
        ELSE IF combined.x % 100 > 50 THEN q + 1
        ELSE IF combined.e > 0 THEN q + 1
        ELSE IF combined.e < 0 THEN q
        ELSE IF q % 2 = 0 THEN q ELSE q + 1

\* lines 260-274 and 278, the confidence as reported
Confidence(signal, combined) ==
    IF signal \in {"STRONG BUY", "BUY"} THEN {Round2(combined)}
    ELSE IF signal = "HOLD" THEN {HOLD_CONFIDENCE}
    ELSE Rounds(10000 - combined.x, 100)

\* lines 236-240: the five sub-scores
Scores(setup, flow, vwap_price, micro, current_price) ==
    [setup_score |-> SetupStrengthOf(setup),
     flow_score  |-> flow.buy_pressure,
     vwap_score  |-> VwapScore(vwap_price, current_price),
     micro_score |-> micro.efficiency,
     vol_score   |-> Clamp01(50 + micro.imbalance)]

\* lines 251-257 on those sub-scores
CombinedOf(sc) ==
    WeightedSum(sc.setup_score, sc.flow_score, sc.vwap_score, sc.micro_score, sc.vol_score)

\* lines 276-288: the returns possible once the components and `combined` are known
Returns(setup, flow, vwap_price, micro, vol_profile, current_price, combined) ==
    LET sc == Scores(setup, flow, vwap_price, micro, current_price)
    IN  {[ret |-> [kind |-> "dict",
                   signal |-> SignalOf(combined),
                   confidence |-> confidence,
                   combined_score |-> Round2(combined),
                   components |->
                      [market_open_setup |-> setup,
                       order_flow |-> flow,
                       vwap_price |-> vwap_price,
                       vwap_distance |-> vwap_distance,
                       microstructure |-> micro,
                       volume_profile |-> vol_profile]],
          frame |-> [kind |-> "frame",
                     setup_score |-> sc.setup_score, flow_score |-> sc.flow_score,
                     vwap_score |-> sc.vwap_score, micro_score |-> sc.micro_score,
                     vol_score |-> sc.vol_score,
                     combined |-> combined]] :
            confidence \in Confidence(SignalOf(combined), combined),
            vwap_distance \in VwapDistance(vwap_price, current_price)}

\* the possible runs of combined_signal: what it returns (or raises) and its locals
combined_signal(prices, volumes, current_price) ==
    IF IsDefaultInput(prices, volumes)
      THEN {[ret |-> CombinedSignalDefault(current_price), frame |-> None]}
    ELSE IF Raised("IndexError") \in order_flow(prices, volumes)
      THEN {[ret |-> Raised("IndexError"), frame |-> None]}
    ELSE
      UNION {
        LET x == CombinedOf(Scores(setup, flow, vwap_price, micro, current_price))
        IN  UNION {Returns(setup, flow, vwap_price, micro, vol_profile, current_price,
                           [x |-> x, e |-> e]) :
                      e \in Deviations(x)}
        : setup \in market_open_setup(prices, volumes),
          flow \in order_flow(prices, volumes),
          vwap_price \in vwap(prices, volumes),
          micro \in microstructure(prices, volumes),
          vol_profile \in volume_profile(prices, volumes, BINS)}

-----------------------------------------------------------------------------
(* get_current_session (session_analyzer.py:10-130).  A time of day is the  *)
(* string "HH:MM", kept as its four digits; the code compares such strings, *)
(* which is a comparison digit by digit from the left.  The descriptive     *)
(* texts of a session (strategy, focus, key_levels, message) are not        *)
(* carried; max_position_size is in hundredths, risk_per_trade in           *)
(* thousandths.                                                             *)

\* now.strftime("%H:%M") for a time given in minutes since midnight
Strftime(minutes) ==
    <<(minutes \div 60) \div 10, (minutes \div 60) % 10, (minutes % 60) \div 10, minutes % 10>>

\* a <= b on strings of equal length
RECURSIVE StrLeqFrom(_, _, _)
StrLeqFrom(a, b, i) ==
    IF i > Len(a) THEN TRUE
    ELSE IF a[i] < b[i] THEN TRUE
    ELSE IF a[i] > b[i] THEN FALSE
    ELSE StrLeqFrom(a, b, i + 1)

StrLeq(a, b) == StrLeqFrom(a, b, 1)

StrLess(a, b) == StrLeq(a, b) /\ a # b

\* lines 10-74, in the order of the dict
MARKET_SESSIONS == <<
    [name |-> "premarket",  start |-> <<0, 8, 0, 0>>, end |-> <<0, 9, 2, 5>>,
     max_position_size |-> 50,  risk_per_trade |-> 20],
    [name |-> "opening",    start |-> <<0, 9, 3, 0>>, end |-> <<1, 0, 0, 0>>,
     max_position_size |-> 100, risk_per_trade |-> 25],
    [name |-> "morning",    start |-> <<1, 0, 0, 0>>, end |-> <<1, 2, 0, 0>>,
     max_position_size |-> 100, risk_per_trade |-> 30],
    [name |-> "lunch",      start |-> <<1, 2, 0, 0>>, end |-> <<1, 3, 0, 0>>,
     max_position_size |-> 50,  risk_per_trade |-> 40],
    [name |-> "afternoon",  start |-> <<1, 3, 0, 0>>, end |-> <<1, 5, 3, 0>>,
     max_position_size |-> 100, risk_per_trade |-> 30],
    [name |-> "closing",    start |-> <<1, 5, 3, 0>>, end |-> <<1, 6, 0, 0>>,
     max_position_size |-> 30,  risk_per_trade |-> 20],
    [name |-> "afterhours", start |-> <<1, 6, 0, 0>>, end |-> <<2, 0, 0, 0>>,
     max_position_size |-> 0,   risk_per_trade |-> 0] >>

\* the literals of lines 113 and 119
EIGHT_AM == <<0, 8, 0, 0>>

EIGHT_PM == <<2, 0, 0, 0>>

\* InWindow with a fault: the end of a window excluded
InWindowHalfOpen(now, session_info) ==
    StrLeq(session_info.start, now) /\ StrLess(now, session_info.end)

\* line 102: session_start <= current_time <= session_end
InWindow(now, session_info) ==
    StrLeq(session_info.start, now) /\ StrLeq(now, session_info.end)

\* lines 103-110
ActiveSession(now, session_info) ==
    [session |-> session_info.name, status |-> "active", current_time |-> now,
     start_time |-> session_info.start, end_time |-> session_info.end,
     start |-> session_info.start, end |-> session_info.end,
     max_position_size |-> session_info.max_position_size,
     risk_per_trade |-> session_info.risk_per_trade]

get_current_session(day, minutes) ==
    LET now == Strftime(minutes)
        n == Len(MARKET_SESSIONS)
    IN  IF day >= 5 THEN [session |-> "market_closed", status |-> "weekend"]
        ELSE IF \E i \in 1..n : InWindow(now, MARKET_SESSIONS[i])
          THEN LET first == CHOOSE i \in 1..n :
                               /\ InWindow(now, MARKET_SESSIONS[i])
                               /\ \A j \in 1..(i - 1) : ~InWindow(now, MARKET_SESSIONS[j])
               IN  ActiveSession(now, MARKET_SESSIONS[first])
        ELSE IF StrLess(now, EIGHT_AM) THEN [session |-> "before_premarket", status |-> "waiting"]
        ELSE IF StrLess(EIGHT_PM, now) THEN [session |-> "after_hours", status |-> "closed"]
        ELSE [session |-> "market_closed", status |-> "closed"]

-----------------------------------------------------------------------------
(* calculate_gap_analysis, calculate_orb, get_session_alerts and            *)
(* get_session_metrics (session_analyzer.py:133-317).  gap_percent is in    *)
(* hundredths of a percent; an alert is kept as its type and its action;    *)
(* the guidance text, a function of the session name alone, is not carried. *)

GapAnalysisDefault == [gap_percent |-> 0, gap_direction |-> "neutral", gap_size |-> 0]

calculate_gap_analysis(current_price, previous_close) ==
    IF previous_close <= 0 THEN {GapAnalysisDefault}
    ELSE LET num == current_price - previous_close
         IN  {[gap_percent |-> g,
               gap_direction |-> (IF num > 0 /\ over1 THEN "up"
                                  ELSE IF num < 0 /\ over1 THEN "down"
                                  ELSE "neutral"),
               gap_size |-> (IF over2 THEN "large" ELSE IF over1 THEN "normal" ELSE "small"),
               current_price |-> current_price,
               previous_close |-> previous_close] :
                 g \in Rounds(num * 10000, previous_close),
                 over1 \in FloatGreater(Abs(num) * 100, previous_close),
                 over2 \in FloatGreater(Abs(num) * 100, 2 * previous_close)}

ORB_CANDLES == 6

OrbDefault == [orb_high |-> None, orb_low |-> None, orb_range |-> None]

calculate_orb(prices, volumes) ==
    IF Len(prices) < ORB_CANDLES THEN OrbDefault
    ELSE LET opening_prices == SubSeq(prices, 1, ORB_CANDLES)
             orb_high == MaxOf(opening_prices)
             orb_low == MinOf(opening_prices)
             last == prices[Len(prices)]
         IN  [orb_high |-> Float(orb_high), orb_low |-> Float(orb_low),
              orb_range |-> Float(orb_high - orb_low),
              current_price |-> last,
              above_orb |-> last > orb_high,
              below_orb |-> last < orb_low]

\* line 290: the returns in percent, here in hundredths of a percent and
\* rounded to a whole number of them (so each is off by at most a half)
ReturnsBp(prices) ==
    [i \in 1..(Len(prices) - 1) |->
        CHOOSE r \in Rounds((prices[i + 1] - prices[i]) * 10000, prices[i]) :
            \A q \in Rounds((prices[i + 1] - prices[i]) * 10000, prices[i]) : r <= q]

RECURSIVE SumSquaresTo(_, _)
SumSquaresTo(seq, n) == IF n = 0 THEN 0 ELSE SumSquaresTo(seq, n - 1) + seq[n] * seq[n]

\* line 292: n * n times the variance of the rounded returns
VarianceN2(returns) ==
    Len(returns) * SumSquaresTo(returns, Len(returns)) - Sum(returns) * Sum(returns)

\* the truth values `volatility > percent` can take; volatility is the
\* standard deviation of the returns (0 with fewer than 2 prices), within a
\* half of that of the rounded returns, so the outcome is open only when the
\* two are within one hundredth of a percent of each other
VolatilityAbove(prices, percent) ==
    IF Len(prices) <= 1 THEN {FALSE}
    ELSE LET returns == ReturnsBp(prices)
             n == Len(returns)
             v == VarianceN2(returns)
             t == 100 * percent
         IN  IF v >= n * n * (t + 1) * (t + 1) THEN {TRUE}
             ELSE IF v <= n * n * (t - 1) * (t - 1) THEN {FALSE}
             ELSE {TRUE, FALSE}

Alert(type, action) == [type |-> type, action |-> action]

\* lines 214 and 223 subtract vwap_price, which raises TypeError on None
AlertsRaise(vwap_price, session_info) ==
    session_info.session \in {"opening", "morning"} /\ vwap_price.kind # "float"

\* lines 194-262 when they do not raise; vwap_price is a float or None,
\* order_flow_ratio in hundredths
get_session_alerts(current_price, vwap_price, order_flow_ratio, prices, session_info) ==
    LET session_name == session_info.session
        away == IF vwap_price.kind = "float" THEN Abs(current_price - vwap_price.v) ELSE 0
    IN  IF session_name = "premarket" THEN
          {(IF Abs(order_flow_ratio - 100) > 50
              THEN <<Alert("info", "Prepare for gap move at market open")>> ELSE <<>>)
           \o (IF high THEN <<Alert("warning", "Be ready for large opening move")>> ELSE <<>>) :
              high \in VolatilityAbove(prices, 10)}
        ELSE IF session_name = "opening" THEN
          {IF far THEN <<Alert("trade", "Potential ORB play")>> ELSE <<>> :
              far \in FloatGreater(away * 100, vwap_price.v * 2)}
        ELSE IF session_name = "morning" THEN
          {IF near THEN <<Alert("trade", "Consider VWAP bounce play")>> ELSE <<>> :
              near \in FloatGreater(vwap_price.v, away * 100)}
        ELSE IF session_name = "lunch" THEN
          {IF low THEN <<Alert("info", "Reduce position size, widen stops")>> ELSE <<>> :
              low \in {~b : b \in VolatilityAbove(prices, 2)}}
        ELSE IF session_name = "afternoon" THEN
          {IF order_flow_ratio < 50 THEN <<Alert("trade", "Watch for bounce setup")>>
           ELSE IF order_flow_ratio > 150 THEN <<Alert("trade", "Follow momentum")>>
           ELSE <<>>}
        ELSE IF session_name = "closing" THEN
          {<<Alert("warning", "Review positions, consider exits before 4 PM")>>}
        ELSE {<<>>}

\* lines 265-317: the possible outcomes of get_session_metrics at the time
\* (day, minutes); line 290 divides by every price but the last
get_session_metrics(prices, volumes, current_price, previous_close, vwap_price, order_flow_ratio, day, minutes) ==
    LET session_info == get_current_session(day, minutes)
    IN  IF Len(prices) > 1 /\ \E i \in 1..(Len(prices) - 1) : prices[i] = 0
          THEN {Raised("ZeroDivisionError")}
        ELSE IF AlertsRaise(vwap_price, session_info) THEN {Raised("TypeError")}
        ELSE {[kind |-> "dict",
               session |-> session_info,
               gap_analysis |-> gap_analysis,
               orb_levels |-> calculate_orb(prices, volumes),
               alerts |-> alerts] :
                 gap_analysis \in calculate_gap_analysis(current_price, previous_close),
                 alerts \in get_session_alerts(current_price, vwap_price, order_flow_ratio,
                                               prices, session_info)}

-----------------------------------------------------------------------------
(* Specification of the signal pipeline: inputs drawn from bounded sets,   *)
(* then one call.                                                           *)

\* cents: a zero price, $100.00 and $102.00 (a 2 % move)
Prices == {0, 10000, 10200}

Volumes == {0, 1}

CurrentPrices == {10000, 10200}

\* lengths of the volume list met with n prices: empty, a single volume, one
\* short (a list that grew under the request) and equal
VolumeLengths(n) == {k \in {0, 1, n - 1, n} : k >= 0 /\ k <= MaxLen}

StoreOff ==
    /\ market_cache = EmptyDict
    /\ price_history = EmptyDict
    /\ u_pc = "off"
    /\ u_i = 1
    /\ u_price = 0
    /\ rounds = 0
    /\ ticks = [s \in Tracked |-> 0]

SignalInit ==
    /\ StoreOff
    /\ ReaderInit
    /\ s_pc = "input"
    /\ \E n \in 0..MaxLen :
         \E k \in VolumeLengths(n) :
            /\ P \in [1..n -> Prices]
            /\ V \in [1..k -> Volumes]
    /\ cur \in CurrentPrices
    /\ result = None
    /\ frame = None
    /\ weekday = 0
    /\ current_time = 0

CallCombinedSignal ==
    /\ s_pc = "input"
    /\ \E run \in combined_signal(P, V, cur) :
          /\ result' = run.ret
          /\ frame' = run.frame
    /\ s_pc' = "combined_signal"
    /\ UNCHANGED inputVars
    /\ UNCHANGED <<storeVars, readerVars, r_lag>>

CallMarketOpenSetup ==
    /\ s_pc = "input"
    /\ \E ret \in market_open_setup(P, V) : result' = ret
    /\ frame' = None
    /\ s_pc' = "market_open_setup"
    /\ UNCHANGED inputVars
    /\ UNCHANGED <<storeVars, readerVars, r_lag>>

SignalNext == CallCombinedSignal \/ CallMarketOpenSetup

SpecSignal == SignalInit /\ [][SignalNext]_vars

-----------------------------------------------------------------------------
(* Specification of the indicator functions: every function of             *)
(* indicators.py, advanced_indicators.py and session_analyzer.py that      *)
(* takes the price list, called once on prices and volumes of equal length *)

\* the periods ema and rsi are called with
Periods == {1, 2, 3}

\* a Wednesday at 10:00
WEDNESDAY == 2

TEN_OCLOCK == 600

IndicatorsInit ==
    /\ StoreOff
    /\ ReaderInit
    /\ s_pc = "input"
    /\ \E n \in 0..MaxLen :
          /\ P \in [1..n -> Prices]
          /\ V \in [1..n -> Volumes]
    /\ cur \in CurrentPrices
    /\ result = None
    /\ frame = None
    /\ weekday = WEDNESDAY
    /\ current_time = TEN_OCLOCK

\* the function `name` has been called on the inputs, returns (or raises) ret
\* and leaves the arguments or locals `locals` to be inspected
Called(name, ret, locals) ==
    /\ s_pc' = name
    /\ result' = ret
    /\ frame' = locals
    /\ UNCHANGED inputVars
    /\ UNCHANGED <<storeVars, readerVars, r_lag>>

Args(period) == [kind |-> "args", period |-> period]

CallEma ==
    /\ s_pc = "input"
    /\ \E period \in Periods :
          \E ret \in ema(P, period) : Called("ema", ret, Args(period))

CallRsi ==
    /\ s_pc = "input"
    /\ \E period \in Periods :
          \E ret \in rsi(P, period) : Called("rsi", ret, Args(period))

CallVwap ==
    /\ s_pc = "input"
    /\ \E ret \in vwap(P, V) : Called("vwap", ret, None)

CallOrderFlow ==
    /\ s_pc = "input"
    /\ \E ret \in order_flow(P, V) : Called("order_flow", ret, None)

CallVolumeProfile ==
    /\ s_pc = "input"
    /\ \E run \in VolumeProfileRuns(P, V, BINS) : Called("volume_profile", run.ret, run.frame)

CallMicrostructure ==
    /\ s_pc = "input"
    /\ \E ret \in microstructure(P, V) : Called("microstructure", ret, None)

\* previous_close as the callers pass it: $100.00, and none
PreviousCloses == {0, 10000}

CallGapAnalysis ==
    /\ s_pc = "input"
    /\ \E previous_close \in PreviousCloses :
          \E ret \in calculate_gap_analysis(cur, previous_close) :
             Called("calculate_gap_analysis", ret,
                    [kind |-> "args", previous_close |-> previous_close])

\* main.py:76-81: the vwap_price and the order-flow ratio found in the
\* components of combined_signal's result (its default, or what vwap and
\* order_flow returned); nothing when combined_signal raised
ReportedComponents(prices, volumes, current_price) ==
    IF IsDefaultInput(prices, volumes)
      THEN {[vwap_price |-> CombinedSignalDefault(current_price).components.vwap_price,
             order_flow_ratio |->
                CombinedSignalDefault(current_price).components.order_flow.ratio]}
    ELSE IF Raised("IndexError") \in order_flow(prices, volumes) THEN {}
    ELSE {[vwap_price |-> vwap_price, order_flow_ratio |-> flow.ratio] :
             vwap_price \in vwap(prices, volumes),
             flow \in order_flow(prices, volumes)}

\* main.py:76-91: get_session_metrics on the vwap and the order-flow ratio
\* that combined_signal reported for the same prices and volumes
CallSessionMetrics ==
    /\ s_pc = "input"
    /\ \E reported \in ReportedComponents(P, V, cur) :
          \E previous_close \in PreviousCloses :
             \E ret \in get_session_metrics(P, V, cur, previous_close, reported.vwap_price,
                                              reported.order_flow_ratio, weekday,
                                              current_time) :
                Called("get_session_metrics", ret,
                       [kind |-> "args", previous_close |-> previous_close,
                        vwap_price |-> reported.vwap_price,
                        order_flow_ratio |-> reported.order_flow_ratio])

IndicatorsNext ==
    \/ CallGapAnalysis
    \/ CallSessionMetrics
    \/ CallEma
    \/ CallRsi
    \/ CallVwap
    \/ CallOrderFlow
    \/ CallVolumeProfile
    \/ CallMicrostructure
    \/ CallMarketOpenSetup
    \/ CallCombinedSignal

SpecIndicators == IndicatorsInit /\ [][IndicatorsNext]_vars

-----------------------------------------------------------------------------
(* Specification of volume_profile alone, on more price levels and on      *)
(* volumes that differ                                                      *)

\* cents: $100.00, $100.25, $101.00 and $102.00
ProfilePrices == {10000, 10025, 10100, 10200}

ProfileVolumes == {1, 2, 3}

ProfileInit ==
    /\ StoreOff
    /\ ReaderInit
    /\ s_pc = "input"
    /\ \E n \in 0..MaxProfileLen :
          /\ P \in [1..n -> ProfilePrices]
          /\ V \in [1..n -> ProfileVolumes]
    /\ cur = 0
    /\ result = None
    /\ frame = None
    /\ weekday = WEDNESDAY
    /\ current_time = TEN_OCLOCK

ProfileNext == CallVolumeProfile

SpecProfile == ProfileInit /\ [][ProfileNext]_vars

-----------------------------------------------------------------------------
(* Specification of market_open_setup alone, on price lists longer than    *)
(* the five candles of the morning momentum, so that gap (first price to   *)
(* last) and momentum (first price to fifth) differ in size and in sign    *)

MaxSetupLen == 6

\* cents: $100.00, $100.80, $101.60 and $102.40; between them moves of about
\* 0.8 %, 1.6 % and 2.4 %, up and down
SetupPrices == {10000, 10080, 10160, 10240}

SetupVolumes == {0, 1}

SetupInit ==
    /\ StoreOff
    /\ ReaderInit
    /\ s_pc = "input"
    /\ \E n \in 0..MaxSetupLen :
          /\ P \in [1..n -> SetupPrices]
          /\ V \in [1..n -> SetupVolumes]
    /\ cur = 0
    /\ result = None
    /\ frame = None
    /\ weekday = WEDNESDAY
    /\ current_time = TEN_OCLOCK

SetupNext == CallMarketOpenSetup

SpecSetup == SetupInit /\ [][SetupNext]_vars

-----------------------------------------------------------------------------
(* Specification of the session clock: get_current_session at every minute *)
(* of every day of the week                                                *)

Weekdays == 0..6

MinutesOfDay == 0..1439

SessionInit ==
    /\ StoreOff
    /\ ReaderInit
    /\ s_pc = "input"
    /\ P = <<>>
    /\ V = <<>>
    /\ cur = 0
    /\ result = None
    /\ frame = None
    /\ weekday \in Weekdays
    /\ current_time \in MinutesOfDay

CallCurrentSession ==
    /\ s_pc = "input"
    /\ Called("get_current_session", get_current_session(weekday, current_time), None)

SessionNext == CallCurrentSession

SpecSession == SessionInit /\ [][SessionNext]_vars

-----------------------------------------------------------------------------
(* Properties of the signal pipeline, checked under SpecSignal *)

\* combined_signal returned a result it computed (not the default, no exception)
Computed == s_pc = "combined_signal" /\ frame.kind = "frame"

\* the float `combined` lies strictly above the cut
StrictlyAbove(c, cut) == c.x > cut \/ (c.x = cut /\ c.e = 1)

\* the reported hundredths h are the 2-decimal rounding of the exact value x
IsRounding(h, x) == Abs(100 * h - x) <= 50

\* C6: the label follows `combined` through brackets open at their lower
\* bound (a value on a cut point takes the lower bracket), with confidence
\* combined / combined / 0.5 / 1 - combined / 1 - combined.
C6_LabelBrackets ==
    Computed =>
        LET c == frame.combined
        IN  IF StrictlyAbove(c, 7500)
              THEN result.signal = "STRONG BUY" /\ IsRounding(result.confidence, c.x)
            ELSE IF StrictlyAbove(c, 6000)
              THEN result.signal = "BUY" /\ IsRounding(result.confidence, c.x)
            ELSE IF StrictlyAbove(c, 4000)
              THEN result.signal = "HOLD" /\ result.confidence = 50
            ELSE IF StrictlyAbove(c, 2500)
              THEN result.signal = "SELL" /\ IsRounding(result.confidence, 10000 - c.x)
            ELSE result.signal = "STRONG SELL" /\ IsRounding(result.confidence, 10000 - c.x)

\* combined is exactly 0.40 and the label is the lower bracket's, SELL, with
\* confidence 1 - 0.40
C6_Witness ==
    /\ Computed
    /\ P = <<10000, 0, 10000>>
    /\ V = <<1, 1, 0>>
    /\ frame.combined = [x |-> 4000, e |-> 0]
    /\ result.signal = "SELL"
    /\ result.confidence = 60

\* the bracket of a reported score, as the claim states it
BracketOf(score) ==
    IF score <= 25 THEN "STRONG SELL"
    ELSE IF score <= 40 THEN "SELL"
    ELSE IF score <= 60 THEN "HOLD"
    ELSE IF score <= 75 THEN "BUY"
    ELSE "STRONG BUY"

\* C7 as stated: in every result the label is the bracket of the reported
\* combined_score.
C7_LabelIsBracketOfScore ==
    (s_pc = "combined_signal" /\ result.kind = "dict") =>
        result.signal = BracketOf(result.combined_score)

\* C7 as amended: the label is chosen before rounding, so a reported score
\* that equals a cut point may carry the label of either bracket next to it;
\* any other score carries the label of its bracket.
C7_LabelWithinRoundingOfScore ==
    (s_pc = "combined_signal" /\ result.kind = "dict") =>
        LET score == result.combined_score
            label == result.signal
        IN  /\ label = "STRONG SELL" => score <= 25
            /\ label = "SELL" => (25 <= score /\ score <= 40)
            /\ label = "HOLD" => (40 <= score /\ score <= 60)
            /\ label = "BUY" => (60 <= score /\ score <= 75)
            /\ label = "STRONG BUY" => 75 <= score
            /\ label \in {"STRONG SELL", "SELL", "HOLD", "BUY", "STRONG BUY"}

\* a HOLD whose reported score is 0.40, from a combined just above 0.40
C7_Witness ==
    /\ Computed
    /\ result.signal = "HOLD"
    /\ result.combined_score = 40
    /\ frame.combined.x > 4000

\* C8: fewer than two prices or fewer than two volumes give the neutral
\* default: HOLD, confidence 0.5, score 0.5, current_price echoed as VWAP,
\* distance 0, and no exception.
C8_NeutralDefault ==
    (s_pc = "combined_signal" /\ (Len(P) < 2 \/ Len(V) < 2)) =>
        /\ result.kind = "dict"
        /\ result.signal = "HOLD"
        /\ result.confidence = 50
        /\ result.combined_score = 50
        /\ result.components.vwap_price = Float(cur)
        /\ result.components.vwap_distance = 0

\* five prices against a single volume
C8_Witness ==
    /\ s_pc = "combined_signal"
    /\ Len(P) = 5
    /\ Len(V) = 1
    /\ result.signal = "HOLD"
    /\ result.components.vwap_price = Float(cur)

\* C9 as stated: the VWAP sub-score is 1.0 when current_price > vwap and 0.0
\* otherwise, whatever vwap is.
C9_VwapScoreBinary ==
    Computed =>
        LET vwap_price == result.components.vwap_price
        IN  IF vwap_price.kind = "float" /\ cur > vwap_price.v
              THEN frame.vwap_score = 100
              ELSE frame.vwap_score = 0

\* C9 as amended: 1.0 / 0.0 by current_price > vwap when vwap is present and
\* not zero; 0.5 when vwap is absent or zero.
C9_VwapScoreNeutralWhenAbsent ==
    Computed =>
        LET vwap_price == result.components.vwap_price
        IN  IF vwap_price.kind = "None" THEN frame.vwap_score = 50
            ELSE IF vwap_price.v = 0 THEN frame.vwap_score = 50
            ELSE IF cur > vwap_price.v THEN frame.vwap_score = 100
            ELSE frame.vwap_score = 0

\* total volume 0: no vwap, the neutral sub-score
C9_Witness ==
    /\ Computed
    /\ result.components.vwap_price.kind = "None"
    /\ frame.vwap_score = 50

\* the inputs and the call C10 is about
SetupComputed == s_pc = "market_open_setup" /\ Len(P) >= 5 /\ Len(V) >= 5

\* the points of the flag |momentum| > 1, from the prices; when momentum is
\* exactly 1 % the float comparison may fall either way
MomentumFlag ==
    IF P[1] = 0 THEN {0}
    ELSE IF Abs(P[EARLY] - P[1]) * 100 > P[1] THEN {FLAG_POINTS}
    ELSE IF Abs(P[EARLY] - P[1]) * 100 < P[1] THEN {0}
    ELSE {0, FLAG_POINTS}

MomentumSign == IF P[1] = 0 THEN 0 ELSE IF P[EARLY] > P[1] THEN 1 ELSE IF P[EARLY] < P[1] THEN -1 ELSE 0

GapSign == IF result.gap > 0 THEN 1 ELSE IF result.gap < 0 THEN -1 ELSE 0

\* C10: for five or more prices and volumes, setup_strength is the capped sum
\* of the flags |gap| > 1, |momentum| > 1 and volume_strength > 1.5, worth 20
\* points each, and of a same-sign flag that is awarded when gap and momentum
\* are both negative as well as when both are positive.  The worth of the
\* same-sign flag is left open between the 20 points of the claim and the 40
\* of line 185, so that the statement fails only where the flag is withheld.
\* Checked under SpecSetup, where gap and momentum span different prices.
C10_SameSignFlagBothSigns ==
    SetupComputed =>
        \E momentum_flag \in MomentumFlag :
           \E same_sign_points \in {FLAG_POINTS, ALIGNED_POINTS} :
              result.setup_strength =
                  Min((IF Abs(result.gap) > 100 THEN FLAG_POINTS ELSE 0)
                      + momentum_flag
                      + (IF result.volume_strength > 150 THEN FLAG_POINTS ELSE 0)
                      + (IF GapSign # 0 /\ GapSign = MomentumSign
                           THEN same_sign_points ELSE 0),
                      STRENGTH_CAP)

\* C10, where the code leaves it: six prices falling by less than 1 % over
\* the first five and by more than 1 % over all six, on ordinary volume.
\* Gap and momentum are both negative, yet setup_strength is the 20 points
\* of the gap flag alone: line 184 tests gap > 0 and momentum > 0 only.
C10_Witness ==
    /\ SetupComputed
    /\ Len(P) > EARLY
    /\ result.gap < -100
    /\ MomentumSign = -1
    /\ MomentumFlag = {0}
    /\ result.volume_strength <= 150
    /\ result.setup_strength = FLAG_POINTS

-----------------------------------------------------------------------------
(* Properties of the indicator functions, checked under SpecIndicators *)

\* C11: called on fewer prices than it needs (and as many volumes), every
\* indicator function returns its documented fallback and does not raise:
\* None for ema, rsi and vwap; {buy 0.5, sell 0.5, ratio 1.0} for order_flow;
\* {poc: last price or 0, value_area: []} for volume_profile; {volatility 0,
\* imbalance 0.5, efficiency 0.5} for microstructure; {gap 0, momentum 0.5,
\* setup_strength 0} for market_open_setup.
C11_FallbacksAsDocumented ==
    /\ (s_pc = "ema" /\ Len(P) < frame.period) => result = None
    /\ (s_pc = "rsi" /\ Len(P) < frame.period + 1) => result = None
    /\ (s_pc = "vwap" /\ Len(P) < 2) => result = None
    /\ (s_pc = "order_flow" /\ Len(P) < 2) =>
          result = [buy_pressure |-> 50, sell_pressure |-> 50, ratio |-> 100]
    /\ (s_pc = "volume_profile" /\ Len(P) < 2) =>
          result = [poc |-> (IF P = <<>> THEN 0 ELSE P[Len(P)]), value_area |-> <<>>]
    /\ (s_pc = "microstructure" /\ Len(P) < 2) =>
          result = [volatility |-> 0, imbalance |-> 50, efficiency |-> 50]
    /\ (s_pc = "market_open_setup" /\ Len(P) < 5) =>
          result = [gap |-> 0, momentum |-> 50, setup_strength |-> 0]

\* C12: on prices and as many non-negative volumes, order_flow returns
\* pressures that sum to 1.0 within 0.01 and a ratio >= 0, the fallbacks
\* (fewer than 2 prices, no attributed volume) included.
C12_PressuresSumToOne ==
    s_pc = "order_flow" =>
        /\ DOMAIN result = {"buy_pressure", "sell_pressure", "ratio"}
        /\ Abs(result.buy_pressure + result.sell_pressure - 100) <= 1
        /\ result.buy_pressure >= 0
        /\ result.sell_pressure >= 0
        /\ result.ratio >= 0

\* one rise and two falls on equal volume: a third against two thirds
C12_Witness ==
    /\ s_pc = "order_flow"
    /\ P = <<10000, 10200, 10000, 0>>
    /\ V = <<1, 1, 1, 1>>
    /\ result = [buy_pressure |-> 33, sell_pressure |-> 67, ratio |-> 50]

\* C16: no call divides by zero, whatever the prices (a price of 0 included)
\* and the volumes (all zero included): none of the indicator functions,
\* combined_signal, calculate_gap_analysis and get_session_metrics raises a
\* division error.
C16_NoDivisionError ==
    s_pc # "input" => result # Raised("ZeroDivisionError")

-----------------------------------------------------------------------------
(* Properties of volume_profile, checked under SpecProfile *)

\* volume_profile went past its guards: at least 2 prices, not all equal
ProfileComputed == s_pc = "volume_profile" /\ frame.kind = "frame"

\* the bucket keys, and the volume accumulated in the bucket of a key
BucketKeys == {frame.bin_volumes[i].key : i \in 1..Len(frame.bin_volumes)}

BucketVol(key) ==
    LET i == CHOOSE i \in 1..Len(frame.bin_volumes) : frame.bin_volumes[i].key = key
    IN  frame.bin_volumes[i].vol

\* the volume of the buckets whose key is in the set S
RECURSIVE VolumeIn(_, _)
VolumeIn(S, n) ==
    IF n = 0 THEN 0
    ELSE VolumeIn(S, n - 1)
         + (IF frame.bin_volumes[n].key \in S THEN frame.bin_volumes[n].vol ELSE 0)

ValueArea == Range(result.value_area)

\* C13: value_area is the shortest prefix of the buckets in descending order
\* of volume whose volume is at least 70 % of the total (without its smallest
\* member it is below 70 %), it is sorted ascending by price, and it contains
\* the point of control, a bucket of the largest volume.
C13_ValueAreaIsMinimalPrefix ==
    (ProfileComputed /\ \A i \in 1..Len(V) : V[i] > 0) =>
        LET n == Len(frame.bin_volumes)
            total == VolumeIn(BucketKeys, n)
            inside == VolumeIn(ValueArea, n)
        IN  /\ ValueArea \subseteq BucketKeys
            /\ ValueArea # {}
            /\ \A a \in ValueArea : \A b \in BucketKeys \ ValueArea : BucketVol(a) >= BucketVol(b)
            /\ 100 * inside >= 70 * total
            /\ \E a \in ValueArea :
                  /\ \A b \in ValueArea : BucketVol(a) <= BucketVol(b)
                  /\ 100 * (inside - BucketVol(a)) < 70 * total
            /\ \A i \in 1..(Len(result.value_area) - 1) :
                  result.value_area[i] < result.value_area[i + 1]
            /\ result.poc \in ValueArea
            /\ \A b \in BucketKeys : BucketVol(result.poc) >= BucketVol(b)

\* three buckets of volumes 3, 2 and 1: the first two make 5 of 6, the first
\* alone only 3 of 6
C13_Witness ==
    /\ ProfileComputed
    /\ P = <<10000, 10100, 10200>>
    /\ V = <<2, 1, 3>>
    /\ Len(frame.bin_volumes) = 3
    /\ Len(result.value_area) = 2
    /\ result.poc = result.value_area[2]

\* C14: the prices are binned into `bins` buckets across [min(P), max(P)]: at
\* most `bins` distinct bucket keys, and every key, the poc and every entry
\* of value_area within [min(P), max(P)].
C14_BucketsWithinPriceRange ==
    ProfileComputed =>
        /\ Cardinality(BucketKeys) <= 10
        /\ \A key \in BucketKeys : MinOf(P) <= key /\ key <= MaxOf(P)
        /\ MinOf(P) <= result.poc /\ result.poc <= MaxOf(P)
        /\ \A key \in ValueArea : MinOf(P) <= key /\ key <= MaxOf(P)

-----------------------------------------------------------------------------
(* Properties of the session clock, checked under SpecSession *)

\* the windows of the table in minutes since midnight, as the claim reads them
WindowNames == <<"premarket", "opening", "morning", "lunch", "afternoon", "closing", "afterhours">>

WindowStart == <<480, 570, 600, 720, 780, 930, 960>>

WindowEnd == <<565, 600, 720, 780, 930, 960, 1200>>

Within(i) == WindowStart[i] <= current_time /\ current_time <= WindowEnd[i]

\* C15: on a weekend the closed / "weekend" state at every time of day; on a
\* weekday an active window iff some window has start <= now <= end, and then
\* the first such window in table order; in no window, "waiting" before the
\* first window's start and "closed" after the last window's end.
C15_FirstMatchingWindow ==
    s_pc = "get_current_session" =>
        IF weekday >= 5
          THEN result.session = "market_closed" /\ result.status = "weekend"
        ELSE IF \E i \in 1..7 : Within(i)
          THEN LET first == CHOOSE i \in 1..7 : Within(i) /\ \A j \in 1..(i - 1) : ~Within(j)
               IN  /\ result.status = "active"
                   /\ result.session = WindowNames[first]
        ELSE /\ result.status # "active"
             /\ current_time < WindowStart[1] => result.status = "waiting"
             /\ current_time > WindowEnd[7] => result.status = "closed"

\* Monday 10:00, the minute the opening and the morning windows share
C15_Witness ==
    /\ s_pc = "get_current_session"
    /\ weekday = 0
    /\ current_time = 600
    /\ result.session = "opening"
    /\ result.status = "active"

====
